---- MODULE Spec2Model ----
(***************************************************************************)
(* The in-memory todo store: the generic Repository and Result of the      *)
(* utilities module and the TodoAppState of app.ts built on them.          *)
(*                                                                         *)
(* JavaScript objects are modelled by what the code can observe of them:   *)
(*   - a plain object (a Todo, an update set) is a record; the spread      *)
(*     { ...a, ...b } is Spread(a, b), which makes a NEW record from the   *)
(*     top-level fields and copies field values as they are;               *)
(*   - a Date is an object with identity: a field that holds a Date holds  *)
(*     its address, and dates[address] is the time the Date now carries.   *)
(*     A spread copies the address, not the Date.                          *)
(***************************************************************************)
EXTENDS Integers, Sequences, FiniteSets, TLC

VARIABLES
    items,        \* Repository.items: the stored objects, in array order
    nextId,       \* Repository.nextId
    constructed,  \* TRUE once a Repository constructor has returned normally
    filter,       \* TodoAppState._filter
    clock,        \* the system clock read by new Date()
    dates,        \* the Date objects alive: address -> time carried
    last,         \* the last call: its name, its id argument, what it returned
    results,      \* the Results a caller of Result holds, in the order it got them
    screen,       \* the tasks todoList shows, as renderTodos last wrote them
    notifications \* the notification elements in document.body, oldest first

vars == <<items, nextId, constructed, filter, clock, dates, last, results,
          screen, notifications>>

\* The document, which the application state never touches.
document == <<screen, notifications>>

-----------------------------------------------------------------------------
(* Bounds of the model *)

MaxId == 2        \* create is not called once nextId exceeds this
MaxTime == 2      \* the clock stops advancing at this reading

-----------------------------------------------------------------------------
(* Values *)

TodoStatus == {"pending", "in-progress", "completed"}
TodoPriority == {"low", "medium", "high"}
FilterValues == {"all"} \cup TodoStatus

\* A Date the store points to is named by the id of the task and the field
\* that pointed to it first: addresses are not observable, so any address not
\* in use may be taken for a new Date.
At(id, slot) == 3 * (id - 1) + slot
Addrs == 1..At(MaxId, 3)
NoDate == 0       \* a dueDate field holding undefined
NaN == -1         \* the time of an Invalid Date
Free == NaN - 1   \* dates[a] of an address holding no Date

\* JavaScript values a call returns, tagged by kind.
Undefined == [kind |-> "undefined"]
Bool(b) == [kind |-> "boolean", b |-> b]
Obj(o) == [kind |-> "object", o |-> o]
Thrown(msg) == [kind |-> "throw", message |-> msg]

\* A string used as a condition: the empty string (and undefined, which the
\* model writes as the empty string where only truthiness is read) is falsy.
Truthy(s) == s # ""

\* { ...a, ...b }: a new object with a's fields overridden by b's.
Spread(a, b) ==
    [k \in DOMAIN a \cup DOMAIN b |-> IF k \in DOMAIN b THEN b[k] ELSE a[k]]

\* The object with no fields.
EmptyObj == [k \in {} |-> 0]

\* Array.prototype.filter with the predicate given as the set of ids kept.
RECURSIVE FilterSeq(_, _)
FilterSeq(s, keep) ==
    IF s = <<>> THEN <<>>
    ELSE IF Head(s).id \in keep
         THEN <<Head(s)>> \o FilterSeq(Tail(s), keep)
         ELSE FilterSeq(Tail(s), keep)

Ids(s) == {s[i].id : i \in 1..Len(s)}

Max(S) == CHOOSE m \in S : \A x \in S : x <= m

-----------------------------------------------------------------------------
(* Date objects *)

\* new Date(...): a new Date object carrying time t, at address a. a holds no
\* Date, or holds one that the call in progress stops pointing to.
NewDate(d, a, t) == [addr |-> a, dates |-> [d EXCEPT ![a] = t]]

\* new Date(string): the time a date string parses to, NaN when it is no date.
DateStrings == {"", "1970-01-02"}
\* Times are counted in days since the epoch.
DateParse(s) ==
    CASE s = "1970-01-01" -> 0
      [] s = "1970-01-02" -> 1
      [] s = "1970-01-03" -> 2
      [] s = "1970-01-01T00:00:00.000Z" -> 0
      [] s = "1970-01-02T00:00:00.000Z" -> 1
      [] s = "1970-01-03T00:00:00.000Z" -> 2
      [] OTHER -> NaN

\* The Dates an object's fields point to.
DatesOf(o) == {o.createdAt, o.updatedAt, o.dueDate} \ {NoDate}

\* The object a returned value carries, if any.
Carried(ret) ==
    CASE ret.kind = "object" -> {ret.o}
      [] ret.kind = "result" -> IF ret.value.kind = "object" THEN {ret.value.o} ELSE {}
      [] OTHER -> {}

\* Garbage collection: a Date that neither the store nor the value just
\* returned points to can no longer be observed, and its address is given back.
Collect(d, its, ret) ==
    LET live == UNION ({DatesOf(its[i]) : i \in 1..Len(its)}
                       \cup {DatesOf(o) : o \in Carried(ret)})
    IN  [a \in Addrs |-> IF a \in live THEN d[a] ELSE Free]

-----------------------------------------------------------------------------
(* class Repository<T extends { id: number }> *)

InvalidId(id) == Thrown("Invalid ID")
DuplicateId(id) == Thrown("Duplicate ID found")

\* The map with the id test written item.id < 0: the id 0 passes.
RECURSIVE CopyCheckedZero(_, _)
CopyCheckedZero(initialItems, seenIds) ==
    IF initialItems = <<>> THEN [kind |-> "array", a |-> <<>>]
    ELSE LET item == Head(initialItems) IN
         IF item.id < 0 THEN InvalidId(item.id)
         ELSE IF item.id \in seenIds THEN DuplicateId(item.id)
         ELSE LET rest == CopyCheckedZero(Tail(initialItems), seenIds \cup {item.id}) IN
              IF rest.kind = "throw" THEN rest
              ELSE [kind |-> "array", a |-> <<Spread(item, EmptyObj)>> \o rest.a]

\* The constructor's map over initialItems, with the ids seen so far: the
\* copied items, or the first throw.
RECURSIVE CopyChecked(_, _)
CopyChecked(initialItems, seenIds) ==
    IF initialItems = <<>> THEN [kind |-> "array", a |-> <<>>]
    ELSE LET item == Head(initialItems) IN
         IF item.id <= 0 THEN InvalidId(item.id)
         ELSE IF item.id \in seenIds THEN DuplicateId(item.id)
         ELSE LET rest == CopyChecked(Tail(initialItems), seenIds \cup {item.id}) IN
              IF rest.kind = "throw" THEN rest
              ELSE [kind |-> "array", a |-> <<Spread(item, EmptyObj)>> \o rest.a]

\* The constructor with nextId taken from the number of initial items.
RepositoryNewByLength(initialItems) ==
    LET copied == CopyChecked(initialItems, {}) IN
    IF copied.kind = "throw" THEN copied
    ELSE [kind |-> "repository",
          items |-> copied.a,
          nextId |-> Len(initialItems) + 1]

\* new Repository(initialItems)
RepositoryNew(initialItems) ==
    LET copied == CopyChecked(initialItems, {}) IN
    IF copied.kind = "throw" THEN copied
    ELSE [kind |-> "repository",
          items |-> copied.a,
          nextId |-> IF Len(initialItems) > 0
                     THEN Max({0} \cup Ids(initialItems)) + 1
                     ELSE 1]

getAll(its) == [i \in 1..Len(its) |-> Spread(its[i], EmptyObj)]

\* Array.prototype.findIndex on the id: 0 stands for the code's -1.
FindIndex(its, id) ==
    IF \E i \in 1..Len(its) : its[i].id = id
    THEN CHOOSE i \in 1..Len(its) :
            its[i].id = id /\ \A j \in 1..(i - 1) : its[j].id # id
    ELSE 0

\* getById taking the id for a position in the array.
getByIdIndex(its, id) ==
    IF id \in 1..Len(its) THEN Obj(Spread(its[id], EmptyObj)) ELSE Undefined

getById(its, id) ==
    LET index == FindIndex(its, id) IN
    IF index = 0 THEN Undefined ELSE Obj(Spread(its[index], EmptyObj))

\* create without the post-increment taking effect on the id: the id is the
\* number of items plus one.
createByCount(its, nid, item) ==
    LET newItem == Spread(item, [id |-> Len(its) + 1]) IN
    [items |-> its \o <<newItem>>,
     nextId |-> nid + 1,
     ret |-> Obj(Spread(newItem, EmptyObj))]

\* create with nextId read but never incremented.
createNoIncrement(its, nid, item) ==
    LET newItem == Spread(item, [id |-> nid]) IN
    [items |-> its \o <<newItem>>,
     nextId |-> nid,
     ret |-> Obj(Spread(newItem, EmptyObj))]

\* create with the spread after the id: an id the argument carries wins.
createArgumentId(its, nid, item) ==
    LET newItem == Spread([id |-> nid], item) IN
    [items |-> its \o <<newItem>>,
     nextId |-> nid + 1,
     ret |-> Obj(Spread(newItem, EmptyObj))]

\* create putting the new item in front of the stored ones.
createPrepend(its, nid, item) ==
    LET newItem == Spread(item, [id |-> nid]) IN
    [items |-> <<newItem>> \o its,
     nextId |-> nid + 1,
     ret |-> Obj(Spread(newItem, EmptyObj))]

\* create giving the smallest positive id no stored item has.
createSmallestFree(its, nid, item) ==
    LET free == CHOOSE n \in 1..(Len(its) + 1) :
                    n \notin Ids(its) /\ \A m \in 1..(n - 1) : m \in Ids(its)
        newItem == Spread(item, [id |-> free])
    IN  [items |-> its \o <<newItem>>,
         nextId |-> nid + 1,
         ret |-> Obj(Spread(newItem, EmptyObj))]

create(its, nid, item) ==
    LET newItem == Spread(item, [id |-> nid]) IN
    [items |-> its \o <<newItem>>,
     nextId |-> nid + 1,
     ret |-> Obj(Spread(newItem, EmptyObj))]

\* update without the not-found return: an unknown id is inserted.
updateUpsert(its, id, updates) ==
    LET index == FindIndex(its, id) IN
    IF index = 0
    THEN [items |-> its \o <<Spread([id |-> id], updates)>>,
          ret |-> Obj(Spread([id |-> id], updates))]
    ELSE LET updatedItems == [its EXCEPT ![index] = Spread(its[index], updates)] IN
         [items |-> updatedItems,
          ret |-> Obj(Spread(updatedItems[index], EmptyObj))]

\* update written as remove-and-push: the updated item goes to the end.
updateMoveToEnd(its, id, updates) ==
    LET index == FindIndex(its, id) IN
    IF index = 0 THEN [items |-> its, ret |-> Undefined]
    ELSE LET updatedItem == Spread(its[index], updates) IN
         [items |-> FilterSeq(its, Ids(its) \ {id}) \o <<updatedItem>>,
          ret |-> Obj(Spread(updatedItem, EmptyObj))]

\* update returning a copy of the item as it was before the merge.
updateReturnsOld(its, id, updates) ==
    LET index == FindIndex(its, id) IN
    IF index = 0 THEN [items |-> its, ret |-> Undefined]
    ELSE [items |-> [its EXCEPT ![index] = Spread(its[index], updates)],
          ret |-> Obj(Spread(its[index], EmptyObj))]

update(its, id, updates) ==
    LET index == FindIndex(its, id) IN
    IF index = 0 THEN [items |-> its, ret |-> Undefined]
    ELSE LET updatedItems == [its EXCEPT ![index] = Spread(its[index], updates)] IN
         [items |-> updatedItems,
          ret |-> Obj(Spread(updatedItems[index], EmptyObj))]

\* delete with the filter's test inverted: only the item with the id is kept.
deleteInverted(its, id) ==
    LET kept == FilterSeq(its, {id}) IN
    [items |-> kept, ret |-> Bool(Len(kept) < Len(its))]

\* delete comparing the lengths with <=: it reports a removal every time.
deleteAlwaysTrue(its, id) ==
    LET kept == FilterSeq(its, Ids(its) \ {id}) IN
    [items |-> kept, ret |-> Bool(Len(kept) <= Len(its))]

delete(its, id) ==
    LET kept == FilterSeq(its, Ids(its) \ {id}) IN
    [items |-> kept, ret |-> Bool(Len(kept) < Len(its))]

exists(its, id) == \E i \in 1..Len(its) : its[i].id = id

count(its) == Len(its)

\* A predicate passed to query: the test of one field against a value.
Holds(p, item) == item[p.field] = p.value

\* Array.prototype.filter with such a predicate.
RECURSIVE FilterBy(_, _)
FilterBy(s, p) ==
    IF s = <<>> THEN <<>>
    ELSE IF Holds(p, Head(s)) THEN <<Head(s)>> \o FilterBy(Tail(s), p)
    ELSE FilterBy(Tail(s), p)

query(its, p) ==
    LET kept == FilterBy(its, p) IN
    [i \in 1..Len(kept) |-> Spread(kept[i], EmptyObj)]

-----------------------------------------------------------------------------
(* class Result<T> *)

\* The private constructor without its two checks.
ResultNewUnchecked(isSuccess, error, value) ==
    [kind |-> "result", isSuccess |-> isSuccess, isFailure |-> ~isSuccess,
     error |-> error, value |-> value]

\* The private constructor: a Result, or the throw of one of its two checks.
ResultNew(isSuccess, error, value) ==
    IF isSuccess /\ Truthy(error)
    THEN Thrown("InvalidOperation: A result cannot be successful and contain an error")
    ELSE IF ~isSuccess /\ ~Truthy(error)
    THEN Thrown("InvalidOperation: A failing result needs to contain an error message")
    ELSE [kind |-> "result", isSuccess |-> isSuccess, isFailure |-> ~isSuccess,
          error |-> error, value |-> value]

ok(value) == ResultNew(TRUE, "", value)

fail(error) == ResultNew(FALSE, error, Undefined)

\* getValue without the test of isSuccess.
getValueUnchecked(r) == r.value

getValue(r) ==
    IF ~r.isSuccess THEN Thrown("Can't get the value of a failed result.")
    ELSE r.value

\* combine keeping the last failure it meets instead of returning at the first.
RECURSIVE combineLast(_)
combineLast(rs) ==
    IF rs = <<>> THEN ok(Undefined)
    ELSE LET rest == combineLast(Tail(rs)) IN
         IF rest.isFailure THEN rest
         ELSE IF Head(rs).isFailure THEN Head(rs) ELSE rest

\* The for loop over results, then Result.ok().
RECURSIVE combine(_)
combine(rs) ==
    IF rs = <<>> THEN ok(Undefined)
    ELSE IF Head(rs).isFailure THEN Head(rs)
    ELSE combine(Tail(rs))

-----------------------------------------------------------------------------
(* Arguments the calls are made with *)

Texts == {"Buy milk"}
\* The time of the Date a caller constructs for a due date, as handleAddTodo
\* does from the form's date input.
DueTime == DateParse("1970-01-03")

\* A Date argument: undefined, or a Date the caller constructs for the call
\* (and still holds afterwards).
DateArgs == {[kind |-> "undefined"], [kind |-> "new", t |-> DueTime]}

\* The argument evaluated before the call about task id: its address, and the
\* Dates then alive.
PassDate(d, id, arg) ==
    CASE arg.kind = "new" -> NewDate(d, At(id, 3), arg.t)
      [] OTHER -> [addr |-> NoDate, dates |-> d]

\* Omit<Todo, 'id' | 'createdAt' | 'updatedAt'>, the dueDate still an argument.
NewTodos ==
    [text : Texts, status : {"pending"}, priority : {"medium"},
     dueDate : DateArgs]

\* UpdateTodoDto: each key present or not; dueDate null, undefined, a Date or
\* a string when present.
DueUpdates ==
    {[kind |-> "null"], [kind |-> "undefined"]}
        \cup {[kind |-> "string", s |-> s] : s \in DateStrings}
        \cup (DateArgs \ {[kind |-> "undefined"]})

UpdateTodoDtos ==
    {EmptyObj, [status |-> "completed"], [status |-> "pending"],
     [text |-> "Walk dog", priority |-> "high"],
     [status |-> "completed", dueDate |-> [kind |-> "null"]]}
        \cup {[dueDate |-> du] : du \in DueUpdates}

\* Ids the calls are made with: the ids create can assign.
IdArgs == 1..MaxId

\* Filter values the view is switched between.
FilterArgs == {"all", "completed"}

-----------------------------------------------------------------------------
(* class TodoAppState *)

\* Lines 94-102: the value updateData.dueDate receives when updates has the
\* dueDate key; todo is the copy getById returned.
ConvertDueDate(d, due, todo) ==
    CASE due.kind = "null" -> [addr |-> NoDate, dates |-> d]
      [] due.kind = "date" -> [addr |-> due.a, dates |-> d]
      [] due.kind = "string" /\ Truthy(due.s) ->
            NewDate(d, At(todo.id, 3), DateParse(due.s))
      [] OTHER -> [addr |-> todo.dueDate, dates |-> d]

\* The updates argument evaluated before the call.
PassUpdate(d, id, updates) ==
    IF "dueDate" \in DOMAIN updates /\ updates.dueDate.kind = "new"
    THEN LET made == NewDate(d, At(id, 3), updates.dueDate.t) IN
         [updates |-> [updates EXCEPT !.dueDate = [kind |-> "date", a |-> made.addr]],
          dates |-> made.dates]
    ELSE [updates |-> updates, dates |-> d]

\* Lines 89-91 without the tests: a key the update lacks is copied as undefined.
CopyAll(updates) ==
    [k \in {"text", "status", "priority"} |->
        IF k \in DOMAIN updates THEN updates[k] ELSE "undefined"]

\* Lines 89-91: the fields text, status and priority that updates defines.
CopyDefined(updates) ==
    [k \in DOMAIN updates \cap {"text", "status", "priority"} |-> updates[k]]

\* Lines 84-86 stamping the wrong field as well.
StampCreated(stamp) == [createdAt |-> stamp, updatedAt |-> stamp]

\* Lines 84-86 stamping createdAt in place of updatedAt.
StampCreatedOnly(stamp) == [createdAt |-> stamp]

\* Lines 84-86: updateData starts as { updatedAt: new Date() }.
Stamp(stamp) == [updatedAt |-> stamp]

Init ==
    /\ items = <<>>
    /\ nextId = 1
    /\ constructed = TRUE
    /\ filter = "all"
    /\ clock = 1
    /\ dates = [a \in Addrs |-> Free]
    /\ last = [op |-> "new", id |-> 0, ret |-> Undefined]
    /\ results = <<>>
    /\ screen = <<>>
    /\ notifications = <<>>

addTodo(todo) ==
    /\ constructed
    /\ nextId <= MaxId
    /\ \E reading \in clock..MaxTime :
        LET passed == PassDate(dates, nextId, todo.dueDate)
            now == NewDate(passed.dates, At(nextId, 1), reading)
            newTodo == Spread([todo EXCEPT !.dueDate = passed.addr],
                              [id |-> 0, createdAt |-> now.addr, updatedAt |-> now.addr])
            created == create(items, nextId, newTodo)
            made == ok(created.ret)
            result == IF made.kind = "throw" THEN fail("Failed to add todo") ELSE made
        IN  /\ items' = created.items
            /\ nextId' = created.nextId
            /\ clock' = reading
            /\ last' = [op |-> "addTodo", id |-> 0, ret |-> result]
            /\ dates' = Collect(now.dates, created.items, result)
    /\ UNCHANGED <<constructed, filter, results>>

updateTodo(id, updates) ==
    /\ constructed
    /\ LET passed == PassUpdate(dates, id, updates)
           todo == getById(items, id)
       IN  IF todo.kind = "undefined"
           THEN LET result == fail("Todo not found") IN
                /\ last' = [op |-> "updateTodo", id |-> id, ret |-> result]
                /\ dates' = Collect(passed.dates, items, result)
                /\ UNCHANGED <<items, nextId, clock>>
           ELSE \E reading \in clock..MaxTime :
                LET stamp == NewDate(passed.dates, At(id, 2), reading)
                    plain == Spread(Stamp(stamp.addr), CopyDefined(passed.updates))
                    keyed == "dueDate" \in DOMAIN passed.updates
                    due == ConvertDueDate(stamp.dates, passed.updates.dueDate, todo.o)
                    updateData == IF keyed THEN Spread(plain, [dueDate |-> due.addr])
                                  ELSE plain
                    updated == update(items, id, updateData)
                    result == IF updated.ret.kind # "undefined" THEN ok(updated.ret)
                              ELSE fail("Failed to update todo")
                IN  /\ items' = updated.items
                    /\ clock' = reading
                    /\ last' = [op |-> "updateTodo", id |-> id, ret |-> result]
                    /\ dates' = Collect(IF keyed THEN due.dates ELSE stamp.dates,
                                        updated.items, result)
                    /\ UNCHANGED nextId
    /\ UNCHANGED <<constructed, filter, results>>

deleteTodo(id) ==
    /\ constructed
    /\ LET deleted == delete(items, id)
           result == IF deleted.ret.b THEN ok(Bool(TRUE)) ELSE fail("Todo not found")
       IN  /\ items' = deleted.items
           /\ last' = [op |-> "deleteTodo", id |-> id, ret |-> result]
           /\ dates' = Collect(dates, deleted.items, result)
    /\ UNCHANGED <<nextId, constructed, filter, clock, results>>

\* The setter assigning nothing.
setFilterIgnored(value) ==
    /\ constructed
    /\ filter' = filter
    /\ last' = [op |-> "setFilter", id |-> 0, ret |-> Undefined, arg |-> value]
    /\ UNCHANGED <<items, nextId, constructed, clock, dates, results>>

setFilter(value) ==
    /\ constructed
    /\ filter' = value
    /\ last' = [op |-> "setFilter", id |-> 0, ret |-> Undefined, arg |-> value]
    /\ UNCHANGED <<items, nextId, constructed, clock, dates, results>>

\* get todos() with the test of the filter callback inverted.
todosInverted(its, f) ==
    LET allTodos == getAll(its) IN
    IF f = "all" THEN allTodos
    ELSE FilterSeq(allTodos, {allTodos[i].id : i \in {j \in 1..Len(allTodos) : allTodos[j].status # f}})

\* get todos()
todos(its, f) ==
    LET allTodos == getAll(its) IN
    IF f = "all" THEN allTodos
    ELSE FilterSeq(allTodos, {allTodos[i].id : i \in {j \in 1..Len(allTodos) : allTodos[j].status = f}})

\* Date.prototype.toISOString of a Date carrying time t (in days): the string,
\* or the RangeError it throws on an Invalid Date.
Null == [kind |-> "null"]
Str(s) == [kind |-> "string", s |-> s]

toISOString(t) ==
    CASE t = 0 -> Str("1970-01-01T00:00:00.000Z")
      [] t = 1 -> Str("1970-01-02T00:00:00.000Z")
      [] t = 2 -> Str("1970-01-03T00:00:00.000Z")
      [] OTHER -> Thrown("RangeError: Invalid time value")

\* formatTodoResponse(todo), with the Dates alive: a Date object is truthy
\* whatever time it carries.
formatTodoResponse(todo, d) ==
    IF todo.dueDate # NoDate
    THEN LET iso == toISOString(d[todo.dueDate]) IN
         IF iso.kind = "throw" THEN iso
         ELSE Obj(Spread(todo, [dueDate |-> iso]))
    ELSE Obj(Spread(todo, [dueDate |-> Null]))

\* A caller changes in place a Date that the value just returned to it points
\* to (setTime).
MutatedTime == DateParse("1970-01-01")

callerSetTime(a) ==
    /\ a \in UNION {DatesOf(o) : o \in Carried(last.ret)}
    /\ \A b \in Addrs : dates[b] # MutatedTime
    /\ dates' = [dates EXCEPT ![a] = MutatedTime]
    /\ last' = [last EXCEPT !.op = "setTime"]
    /\ UNCHANGED <<items, nextId, constructed, filter, clock, results, screen, notifications>>

\* A caller reassigns the text field of the object just returned to it.
callerAssign(text) ==
    /\ Carried(last.ret) # {}
    /\ last.ret.value.o.text # text
    /\ last' = [last EXCEPT !.op = "assign", !.ret.value.o.text = text]
    /\ UNCHANGED <<items, nextId, constructed, filter, clock, dates, results, screen, notifications>>

Next ==
    \/ \E todo \in NewTodos : addTodo(todo) /\ UNCHANGED document
    \/ \E id \in IdArgs, updates \in UpdateTodoDtos : updateTodo(id, updates) /\ UNCHANGED document
    \/ \E id \in IdArgs : deleteTodo(id) /\ UNCHANGED document
    \/ \E value \in FilterArgs : setFilter(value) /\ UNCHANGED document

Spec == Init /\ [][Next]_vars

\* The application state used by a caller that also changes the values it got.
CallerDtos == {[status |-> "completed"], [dueDate |-> [kind |-> "new", t |-> DueTime]]}

NextCaller ==
    \/ \E todo \in NewTodos : addTodo(todo) /\ UNCHANGED document
    \/ \E id \in IdArgs, updates \in CallerDtos : updateTodo(id, updates) /\ UNCHANGED document
    \/ \E id \in IdArgs : deleteTodo(id) /\ UNCHANGED document
    \/ \E a \in Addrs : callerSetTime(a)
    \/ callerAssign("changed")

SpecCaller == Init /\ [][NextCaller]_vars

-----------------------------------------------------------------------------
(* The page: the handlers of the form, of the status selects, of the delete  *)
(* buttons and of the filter buttons, and the timers of the notifications.   *)

MaxNotes == 2     \* a handler waits while this many notifications are on the page

\* What the user types in the text input, and what the date input holds.
TextInputs == {"Buy milk", " Buy milk ", "  "}
DueInputs == {"", "1970-01-03"}
PriorityInputs == {"low", "high"}

\* String.prototype.trim on the strings above.
Trim(s) ==
    CASE s = " Buy milk " -> "Buy milk"
      [] s = "  " -> ""
      [] OTHER -> s

\* The object handleAddTodo passes, with the status taken to be 'completed'.
FormTodoCompleted(text, priority, dueDate) ==
    [text |-> text, status |-> "completed", priority |-> priority, dueDate |-> dueDate]

\* Lines 262-267: the object handleAddTodo passes to appState.addTodo.
FormTodo(text, priority, dueDate) ==
    [text |-> text, status |-> "pending", priority |-> priority, dueDate |-> dueDate]

\* The <li> renderTodos writes for one task: the data-id, the text, the status
\* its select shows, the priority, the due date if there is one, and the time
\* of the update its "Updated:" span is computed from.
Shown(todo, d) ==
    [id |-> todo.id, text |-> todo.text, status |-> todo.status,
     priority |-> todo.priority,
     due |-> IF todo.dueDate # NoDate THEN [kind |-> "date", t |-> d[todo.dueDate]]
             ELSE Null,
     updated |-> d[todo.updatedAt]]

\* renderTodos reading the whole store in place of the filtered view.
renderTodosAll(its, f, d) ==
    LET shown == getAll(its) IN
    [i \in 1..Len(shown) |-> Shown(shown[i], d)]

\* renderTodos(): what todoList shows afterwards. The empty view is rendered as
\* the empty-state item, which shows no task.
renderTodos(its, f, d) ==
    LET shown == todos(its, f) IN
    [i \in 1..Len(shown) |-> Shown(shown[i], d)]

\* showNotification(message, type): a new element of class type, appended to
\* the body and given the class show; its timer is pending.
showNotification(ns, type) == Append(ns, [type |-> type, phase |-> "show"])

\* What a handler does with the Result of the call it made: on success it
\* renders and shows a success notification, on failure it shows the error.
Report ==
    IF last'.ret.isSuccess
    THEN /\ screen' = renderTodos(items', filter', dates')
         /\ notifications' = showNotification(notifications, "success")
    ELSE /\ notifications' = showNotification(notifications, "error")
         /\ UNCHANGED screen

\* handleAddTodo with the form holding value, priority and due.
handleAddTodo(value, priority, due) ==
    LET text == Trim(value) IN
    /\ Len(notifications) < MaxNotes
    /\ IF ~Truthy(text)
       THEN /\ last' = [op |-> "handleAddTodo", id |-> 0, ret |-> Undefined]
            /\ notifications' = showNotification(notifications, "error")
            /\ UNCHANGED <<items, nextId, constructed, filter, clock, dates, results,
                           screen>>
       ELSE /\ addTodo(FormTodo(text, priority,
                                IF Truthy(due) THEN [kind |-> "new", t |-> DateParse(due)]
                                ELSE [kind |-> "undefined"]))
            /\ Report

\* The status select of a task: updateTodo with the status alone.
StatusDtos == {[status |-> "completed"], [status |-> "pending"]}

\* handleStatusChange on the select of task id, set to status. A failure leaves
\* the list as it was and sets the select back to the status of the task.
handleStatusChange(id, status) ==
    /\ Len(notifications) < MaxNotes
    /\ updateTodo(id, [status |-> status])
    /\ Report

\* handleDeleteTodo on the button of task id, the user answering the
\* confirmation with answer.
handleDeleteTodo(id, answer) ==
    /\ Len(notifications) < MaxNotes
    /\ IF id = 0 \/ ~answer
       THEN /\ last' = [op |-> "handleDeleteTodo", id |-> id, ret |-> Undefined]
            /\ UNCHANGED <<items, nextId, constructed, filter, clock, dates, results,
                           screen, notifications>>
       ELSE /\ deleteTodo(id)
            /\ Report

\* The data-filter of the button clicked; the empty string stands for a button
\* that has none.
FilterInputs == {"", "all", "completed"}

\* handleFilterChange on a button whose data-filter is value.
handleFilterChange(value) ==
    IF ~Truthy(value)
    THEN /\ last' = [op |-> "handleFilterChange", id |-> 0, ret |-> Undefined]
         /\ UNCHANGED <<items, nextId, constructed, filter, clock, dates, results,
                        screen, notifications>>
    ELSE /\ setFilter(value)
         /\ screen' = renderTodos(items', filter', dates')
         /\ UNCHANGED notifications

\* The timer callback of the i-th notification that also sets the filter back.
notificationTimeoutResets(i) ==
    /\ notifications[i].phase = "show"
    /\ notifications' = [notifications EXCEPT ![i].phase = "hiding"]
    /\ filter' = "all"
    /\ last' = [op |-> "timeout", id |-> 0, ret |-> Undefined]
    /\ UNCHANGED <<items, nextId, constructed, clock, dates, results, screen>>

\* The timer of the i-th notification fires: the callback takes the class show
\* away and listens for the end of the transition.
notificationTimeout(i) ==
    /\ notifications[i].phase = "show"
    /\ notifications' = [notifications EXCEPT ![i].phase = "hiding"]
    /\ last' = [op |-> "timeout", id |-> 0, ret |-> Undefined]
    /\ UNCHANGED <<items, nextId, constructed, filter, clock, dates, results, screen>>

\* The transition of the i-th notification ends: the listener removes the
\* element from the document.
notificationTransitionEnd(i) ==
    /\ notifications[i].phase = "hiding"
    /\ notifications' = [k \in 1..(Len(notifications) - 1) |->
                            IF k < i THEN notifications[k] ELSE notifications[k + 1]]
    /\ last' = [op |-> "transitionend", id |-> 0, ret |-> Undefined]
    /\ UNCHANGED <<items, nextId, constructed, filter, clock, dates, results, screen>>

\* The events of the page: the selects and the delete buttons are those of the
\* tasks on screen; the timers fire between the events, in any order.
NextForm ==
    \/ \E value \in TextInputs, priority \in PriorityInputs, due \in DueInputs :
            handleAddTodo(value, priority, due)
    \/ \E i \in 1..Len(screen), updates \in StatusDtos :
            handleStatusChange(screen[i].id, updates.status)
    \/ \E i \in 1..Len(screen), answer \in BOOLEAN :
            handleDeleteTodo(screen[i].id, answer)
    \/ \E value \in FilterInputs : handleFilterChange(value)
    \/ \E i \in 1..Len(notifications) : notificationTimeout(i)
    \/ \E i \in 1..Len(notifications) : notificationTransitionEnd(i)

SpecForm == Init /\ [][NextForm]_vars

-----------------------------------------------------------------------------
(* The application state called with any text: addTodo and updateTodo as       *)
(* their parameter types allow, not only as the page calls them.               *)

TextArgs == {"Buy milk", "  ", ""}

TextTodos ==
    [text : TextArgs, status : {"pending"}, priority : {"medium"},
     dueDate : {[kind |-> "undefined"]}]

TextDtos == {[text |-> text] : text \in TextArgs}

NextText ==
    \/ \E todo \in TextTodos : addTodo(todo) /\ UNCHANGED document
    \/ \E id \in IdArgs, updates \in TextDtos : updateTodo(id, updates) /\ UNCHANGED document
    \/ \E id \in IdArgs : deleteTodo(id) /\ UNCHANGED document

SpecText == Init /\ [][NextText]_vars

-----------------------------------------------------------------------------
(* The application state with its tasks formatted for transport: due dates     *)
(* are set from date strings and from strings that are no date.                *)

FormatDtos ==
    {[dueDate |-> [kind |-> "string", s |-> "tomorrow"]],
     [dueDate |-> [kind |-> "string", s |-> "1970-01-02"]],
     [dueDate |-> [kind |-> "null"]]}

\* formatTodoResponse called with the i-th task of getAll().
callFormatTodoResponse(i) ==
    /\ constructed
    /\ LET todo == getAll(items)[i] IN
        last' = [op |-> "formatTodoResponse", id |-> todo.id,
                 ret |-> formatTodoResponse(todo, dates), arg |-> todo]
    /\ UNCHANGED <<items, nextId, constructed, filter, clock, dates, results, screen, notifications>>

NextFormat ==
    \/ \E todo \in NewTodos : addTodo(todo) /\ UNCHANGED document
    \/ \E id \in IdArgs, updates \in FormatDtos : updateTodo(id, updates) /\ UNCHANGED document
    \/ \E id \in IdArgs : deleteTodo(id) /\ UNCHANGED document
    \/ \E i \in 1..Len(items) : callFormatTodoResponse(i)

SpecFormat == Init /\ [][NextFormat]_vars

-----------------------------------------------------------------------------
(* A Repository<Todo> used directly: constructed from any initial list, then   *)
(* create, update and delete called on it.                                     *)

MaxInitId == 2    \* initial items carry ids from -1 up to this
MaxInit == 2      \* length of the initial list
MaxRepoId == 4    \* create is not called once nextId exceeds this

RepoIdArgs == 1..MaxRepoId

\* The one Date the caller of the repository stamps its items with.
CallerDate == At(1, 1)

Item(text) ==
    [text |-> text, status |-> "pending", priority |-> "medium",
     createdAt |-> CallerDate, updatedAt |-> CallerDate, dueDate |-> NoDate]

WithId(item, id) == Spread(item, [id |-> id])

InitialItems == {WithId(Item("Buy milk"), id) : id \in (-1)..MaxInitId}

InitialLists == UNION {[1..n -> InitialItems] : n \in 0..MaxInit}

\* Arguments of create: typed without an id, but an object may carry one.
CreateArgs == {Item("Buy milk"), WithId(Item("Buy milk"), 0), WithId(Item("Buy milk"), 1)}

\* Partial<Omit<T, 'id'>>
UpdateArgs ==
    {EmptyObj, [text |-> "Walk dog"], [status |-> "completed"],
     [text |-> "Walk dog", status |-> "completed"]}

InitRepo ==
    \E initialItems \in InitialLists :
        LET made == RepositoryNew(initialItems) IN
        /\ constructed = (made.kind = "repository")
        /\ items = IF constructed THEN made.items ELSE <<>>
        /\ nextId = IF constructed THEN made.nextId ELSE 1
        /\ filter = "all"
        /\ clock = 1
        /\ dates = [a \in Addrs |-> IF a = CallerDate THEN 1 ELSE Free]
        /\ last = [op |-> "new", id |-> 0,
                   ret |-> IF made.kind = "throw" THEN made ELSE Undefined,
                   arg |-> initialItems]
        /\ results = <<>>
        /\ screen = <<>>
        /\ notifications = <<>>

callCreate(item) ==
    /\ constructed
    /\ nextId <= MaxRepoId
    /\ LET created == create(items, nextId, item) IN
        /\ items' = created.items
        /\ nextId' = created.nextId
        /\ last' = [op |-> "create", id |-> 0, ret |-> created.ret]
    /\ UNCHANGED <<constructed, filter, clock, dates, results, screen, notifications>>

callUpdate(id, updates) ==
    /\ constructed
    /\ LET updated == update(items, id, updates) IN
        /\ items' = updated.items
        /\ last' = [op |-> "update", id |-> id, ret |-> updated.ret]
    /\ UNCHANGED <<nextId, constructed, filter, clock, dates, results, screen, notifications>>

callDelete(id) ==
    /\ constructed
    /\ LET deleted == delete(items, id) IN
        /\ items' = deleted.items
        /\ last' = [op |-> "delete", id |-> id, ret |-> deleted.ret]
    /\ UNCHANGED <<nextId, constructed, filter, clock, dates, results, screen, notifications>>

NextRepo ==
    \/ \E item \in CreateArgs : callCreate(item)
    \/ \E id \in RepoIdArgs, updates \in UpdateArgs : callUpdate(id, updates)
    \/ \E id \in RepoIdArgs : callDelete(id)

SpecRepo == InitRepo /\ [][NextRepo]_vars

\* The same Repository with its read operations called as well.
Predicates ==
    {[field |-> "status", value |-> "completed"], [field |-> "text", value |-> "Buy milk"]}

Array(a) == [kind |-> "array", a |-> a]
Number(n) == [kind |-> "number", n |-> n]

callGetAll ==
    /\ constructed
    /\ last' = [op |-> "getAll", id |-> 0, ret |-> Array(getAll(items))]
    /\ UNCHANGED <<items, nextId, constructed, filter, clock, dates, results, screen, notifications>>

callGetById(id) ==
    /\ constructed
    /\ last' = [op |-> "getById", id |-> id, ret |-> getById(items, id)]
    /\ UNCHANGED <<items, nextId, constructed, filter, clock, dates, results, screen, notifications>>

callExists(id) ==
    /\ constructed
    /\ last' = [op |-> "exists", id |-> id, ret |-> Bool(exists(items, id))]
    /\ UNCHANGED <<items, nextId, constructed, filter, clock, dates, results, screen, notifications>>

callCount ==
    /\ constructed
    /\ last' = [op |-> "count", id |-> 0, ret |-> Number(count(items))]
    /\ UNCHANGED <<items, nextId, constructed, filter, clock, dates, results, screen, notifications>>

callQuery(p) ==
    /\ constructed
    /\ last' = [op |-> "query", id |-> 0, ret |-> Array(query(items, p)), arg |-> p]
    /\ UNCHANGED <<items, nextId, constructed, filter, clock, dates, results, screen, notifications>>

NextRead ==
    \/ \E item \in CreateArgs : callCreate(item)
    \/ \E id \in RepoIdArgs, updates \in UpdateArgs : callUpdate(id, updates)
    \/ \E id \in RepoIdArgs : callDelete(id)
    \/ callGetAll
    \/ \E id \in RepoIdArgs : callGetById(id)
    \/ \E id \in RepoIdArgs : callExists(id)
    \/ callCount
    \/ \E p \in Predicates : callQuery(p)

SpecRead == InitRepo /\ [][NextRead]_vars

-----------------------------------------------------------------------------
(* Result used directly: ok, fail and the constructor called with any          *)
(* arguments, getValue called on the Results obtained, combine on their list.  *)

MaxResults == 3   \* the caller holds at most this many Results

\* Values a Result is made to carry.
Values == {Undefined, Bool(TRUE), Obj(Item("Buy milk"))}

\* Error arguments: the empty message and two messages.
Errors == {"", "E", "F"}

InitResult ==
    /\ items = <<>>
    /\ nextId = 1
    /\ constructed = TRUE
    /\ filter = "all"
    /\ clock = 1
    /\ dates = [a \in Addrs |-> IF a = CallerDate THEN 1 ELSE Free]
    /\ last = [op |-> "new", id |-> 0, ret |-> Undefined]
    /\ results = <<>>
    /\ screen = <<>>
    /\ notifications = <<>>

\* The caller keeps a Result it got while it has room for it; a throw leaves it
\* with what it had.
Keep(made) ==
    IF made.kind = "result" /\ Len(results) < MaxResults
    THEN Append(results, made)
    ELSE results

callOk(value) ==
    /\ last' = [op |-> "ok", id |-> 0, ret |-> ok(value), arg |-> value]
    /\ results' = Keep(ok(value))
    /\ UNCHANGED <<items, nextId, constructed, filter, clock, dates, screen, notifications>>

callFail(error) ==
    /\ last' = [op |-> "fail", id |-> 0, ret |-> fail(error), arg |-> error]
    /\ results' = Keep(fail(error))
    /\ UNCHANGED <<items, nextId, constructed, filter, clock, dates, screen, notifications>>

\* new Result(isSuccess, error, value): private to the class in TypeScript,
\* open to any caller of the compiled code.
callNew(isSuccess, error, value) ==
    /\ last' = [op |-> "new Result", id |-> 0,
                ret |-> ResultNew(isSuccess, error, value),
                arg |-> [isSuccess |-> isSuccess, error |-> error]]
    /\ results' = Keep(ResultNew(isSuccess, error, value))
    /\ UNCHANGED <<items, nextId, constructed, filter, clock, dates, screen, notifications>>

\* getValue() on the i-th Result held; i = 0 is the Result just returned.
callGetValue(i) ==
    /\ i = 0 => last.ret.kind = "result"
    /\ LET r == IF i = 0 THEN last.ret ELSE results[i] IN
        last' = [op |-> "getValue", id |-> i, ret |-> getValue(r)]
    /\ UNCHANGED <<items, nextId, constructed, filter, clock, dates, results, screen, notifications>>

callCombine ==
    /\ last' = [op |-> "combine", id |-> 0, ret |-> combine(results)]
    /\ UNCHANGED <<items, nextId, constructed, filter, clock, dates, results, screen, notifications>>

NextResult ==
    \/ \E value \in Values : callOk(value)
    \/ \E error \in Errors : callFail(error)
    \/ \E isSuccess \in BOOLEAN, error \in Errors : callNew(isSuccess, error, Undefined)
    \/ \E i \in 0..Len(results) : callGetValue(i)
    \/ callCombine

SpecResult == InitResult /\ [][NextResult]_vars

-----------------------------------------------------------------------------
(* class ApiHandler *)

MaxTotal == 12      \* total runs from 0 to this
MaxPageSize == 5    \* pageSize runs from 1 to this
MaxPage == 2        \* page runs from 1 to this

\* Math.floor(total / pageSize) in place of Math.ceil.
FloorDiv(total, pageSize) == total \div pageSize

\* Math.ceil(total / pageSize) for total >= 0 and pageSize >= 1: the quotient
\* total / pageSize is its integer part total \div pageSize plus the fraction
\* (total % pageSize) / pageSize, and ceil adds one when the fraction is not 0.
CeilDiv(total, pageSize) ==
    (total \div pageSize) + (IF total % pageSize > 0 THEN 1 ELSE 0)

\* createPaginatedResponse(items, page, pageSize, total) with the default
\* message; stamp is the Date made for the timestamp.
createPaginatedResponse(its, page, pageSize, total, stamp) ==
    [data |-> its,
     status |-> 200,
     success |-> TRUE,
     message |-> "Success",
     timestamp |-> stamp,
     page |-> page,
     pageSize |-> pageSize,
     total |-> total,
     totalPages |-> CeilDiv(total, pageSize)]

InitApi ==
    /\ items = <<>>
    /\ nextId = 1
    /\ constructed = TRUE
    /\ filter = "all"
    /\ clock = 1
    /\ dates = [a \in Addrs |-> Free]
    /\ last = [op |-> "new", id |-> 0, ret |-> Undefined]
    /\ results = <<>>
    /\ screen = <<>>
    /\ notifications = <<>>

\* A caller pages through `total` items: the data of the page is not looked
\* at by the call and is passed empty.
callCreatePaginatedResponse(page, pageSize, total) ==
    /\ \E reading \in clock..MaxTime :
        LET stamp == NewDate(dates, At(1, 1), reading) IN
        /\ last' = [op |-> "createPaginatedResponse", id |-> 0,
                    ret |-> Obj(createPaginatedResponse(<<>>, page, pageSize, total, stamp.addr)),
                    arg |-> [page |-> page, pageSize |-> pageSize, total |-> total]]
        /\ clock' = reading
        /\ dates' = stamp.dates
    /\ UNCHANGED <<items, nextId, constructed, filter, results, screen, notifications>>

NextApi ==
    \E page \in 1..MaxPage, pageSize \in 1..MaxPageSize, total \in 0..MaxTotal :
        callCreatePaginatedResponse(page, pageSize, total)

SpecApi == InitApi /\ [][NextApi]_vars

-----------------------------------------------------------------------------
(* Identity *)

\* C1: in every state reachable from a successfully constructed Repository by
\* create, update and delete calls, every stored id is strictly positive and no
\* two stored items share an id.
C1_IdsPositiveUnique ==
    constructed =>
        /\ \A i \in 1..Len(items) : items[i].id > 0
        /\ \A i, j \in 1..Len(items) : items[i].id = items[j].id => i = j

\* C1 witness: a store of at least two items, the last one created, in which an
\* id below the largest is not in use.
C1_Witness ==
    /\ constructed
    /\ last.op = "create"
    /\ Len(items) >= 2
    /\ \E id \in 1..MaxInitId : id \notin Ids(items)

\* C2: nextId is 1 after construction from an empty list and otherwise above
\* every initial id; in every reachable state it is above every stored id; every
\* create strictly increases it and no call decreases it.
C2_NextIdAboveIds ==
    /\ [](constructed =>
            /\ (last.op = "new" /\ items = <<>>) => nextId = 1
            /\ \A i \in 1..Len(items) : items[i].id < nextId)
    /\ [][/\ nextId' >= nextId
          /\ last'.op = "create" => nextId' > nextId]_vars

\* C2 witness: after a delete of the largest id, nextId is more than one above
\* the largest id left.
C2_Witness ==
    /\ constructed
    /\ last.op = "delete"
    /\ last.ret.b
    /\ items # <<>>
    /\ nextId > Max(Ids(items)) + 1

\* C3: every create returns an item whose id no stored item had before the
\* call, whatever id the argument carried, and appends that item; two creates in
\* a row with the same field values return distinct ids and leave two items.
C3_CreateFreshId ==
    [][last'.op = "create" =>
        /\ last'.ret.kind = "object"
        /\ last'.ret.o.id \notin Ids(items)
        /\ Len(items') = Len(items) + 1
        /\ items'[Len(items')] = last'.ret.o
        /\ last.op = "create" =>
            /\ last'.ret.o.id # last.ret.o.id
            /\ \E i, j \in 1..Len(items') :
                /\ i # j
                /\ items'[i] = last.ret.o
                /\ items'[j] = last'.ret.o]_vars

\* C3 witness: two creates in a row with an argument that carried the id of a
\* stored item.
C3_Witness ==
    /\ last.op = "create"
    /\ Len(items) >= 3
    /\ items[Len(items)].id = MaxRepoId
    /\ items[Len(items) - 1].id = MaxRepoId - 1
    /\ \A k \in DOMAIN items[Len(items)] \ {"id"} :
            items[Len(items)][k] = items[Len(items) - 1][k]

-----------------------------------------------------------------------------
(* Lifecycle of a task *)

\* What a caller reads from the store: getAll() with every Date field replaced
\* by the time the Date carries.
Time(d, a) == IF a = NoDate THEN NoDate ELSE d[a]

Read(o, d) ==
    [o EXCEPT !.createdAt = Time(d, @), !.updatedAt = Time(d, @), !.dueDate = Time(d, @)]

Observed(its, d) == [i \in 1..Len(its) |-> Read(getAll(its)[i], d)]

\* s with its k-th element removed.
Without(s, k) == [i \in 1..(Len(s) - 1) |-> IF i < k THEN s[i] ELSE s[i + 1]]

\* C4: a task stays in the store across every call, failed ones and filter
\* changes included, until deleteTodo is called with its id; only that call
\* removes it, and an id once assigned and no longer in the store is never
\* assigned again.
C4_RemovedOnlyByDelete ==
    [][\A id \in IdArgs :
        /\ (exists(items, id) /\ ~exists(items', id)) =>
                (last'.op = "deleteTodo" /\ last'.id = id)
        /\ (exists(items, id) /\ exists(items', id)) =>
                getById(items', id).kind = "object"
        /\ (id < nextId /\ ~exists(items, id)) => ~exists(items', id)]_vars

\* C4 witness: a task was added after the task with id 1 was deleted.
C4_Witness ==
    /\ last.op = "addTodo"
    /\ nextId > 2
    /\ ~exists(items, 1)
    /\ items # <<>>

\* C5: whatever a caller does to a value it got back (reassigning a field,
\* changing a Date it carries in place), what getAll and getById return stays the
\* same.
C5_CopyIsolation ==
    [][last'.op \in {"setTime", "assign"} =>
            Observed(items', dates') = Observed(items, dates)]_vars

\* C6: a successful updateTodo changes, in the task with the id, only the fields
\* present in the update and updatedAt; all other fields of that task, all other
\* tasks and the number of tasks stay as they were.
C6_UpdateFrame ==
    [][\A id \in IdArgs, updates \in UpdateTodoDtos :
        (/\ last'.op = "updateTodo"
         /\ last'.id = id
         /\ exists(items, id)
         /\ updateTodo(id, updates)) =>
            /\ Len(items') = Len(items)
            /\ \A i \in 1..Len(items) :
                IF items[i].id # id
                THEN Read(items'[i], dates') = Read(items[i], dates)
                ELSE \A k \in DOMAIN items[i] \ (DOMAIN updates \cup {"updatedAt"}) :
                        Read(items'[i], dates')[k] = Read(items[i], dates)[k]]_vars

\* C6 witness: an update of one field of the second of two tasks has succeeded.
C6_Witness ==
    /\ last.op = "updateTodo"
    /\ last.ret.isSuccess
    /\ Len(items) = 2
    /\ last.id = items[2].id
    /\ items[2].status = "completed"
    /\ items[2].text = "Buy milk"

\* C7: over any sequence of addTodo, updateTodo, deleteTodo and filter changes a
\* stored task keeps the id and the createdAt time that addTodo returned: addTodo
\* stores what it returns, a delete only closes the gap, and every other call
\* leaves id and createdAt of every task as they were.
C7_IdCreatedAtFixed ==
    [][LET kept(o, p) == /\ p.id = o.id
                         /\ Time(dates', p.createdAt) = Time(dates, o.createdAt)
       IN
       /\ last'.op = "addTodo" =>
            /\ items'[Len(items')].id = last'.ret.value.o.id
            /\ Time(dates', items'[Len(items')].createdAt)
                    = Time(dates', last'.ret.value.o.createdAt)
       /\ IF last'.op = "deleteTodo" /\ last'.ret.isSuccess
          THEN \E k \in 1..Len(items) :
                    /\ items[k].id = last'.id
                    /\ Len(items') = Len(items) - 1
                    /\ \A i \in 1..Len(items') : kept(Without(items, k)[i], items'[i])
          ELSE \A i \in 1..Len(items) : kept(items[i], items'[i])]_vars

\* C7 witness: a task created at time 1 has been updated at time 2 after another
\* task was deleted.
C7_Witness ==
    /\ last.op = "updateTodo"
    /\ last.ret.isSuccess
    /\ Len(items) = 1
    /\ items[1].id = 2
    /\ dates[items[1].createdAt] = 1
    /\ dates[items[1].updatedAt] = 2

-----------------------------------------------------------------------------
(* Calls with an id that is not in the store *)

NotFound == [kind |-> "result", isSuccess |-> FALSE, isFailure |-> TRUE,
             error |-> "Todo not found", value |-> Undefined]

\* C8: an update of an id that is not in the store raises nothing and reports
\* not-found (update returns undefined, updateTodo a failure Result with the
\* message 'Todo not found'), and the stored items, their order and nextId stay
\* as they were.
C8_UpdateNotFound ==
    /\ [](\A id \in IdArgs \ Ids(items), updates \in UpdateArgs :
            update(items, id, updates) = [items |-> items, ret |-> Undefined])
    /\ [][(last'.op = "updateTodo" /\ ~exists(items, last'.id)) =>
            /\ last'.ret = NotFound
            /\ items' = items
            /\ nextId' = nextId]_vars

\* C8 witness: updateTodo has failed on a store that holds a task.
C8_Witness ==
    /\ last.op = "updateTodo"
    /\ last.ret.isFailure
    /\ items # <<>>
    /\ last.id \notin Ids(items)

\* C9: delete of an id not in the store returns false (deleteTodo: a failure
\* Result with the message 'Todo not found') and leaves the stored tasks and
\* their number as they were; delete of a stored id returns true (deleteTodo: a
\* success Result with value true), removes exactly that task and lowers the
\* count by one; a second delete of the same id returns false.
C9_Delete ==
    /\ [](\A id \in IdArgs : delete(items, id).ret = Bool(exists(items, id)))
    /\ [][last'.op = "deleteTodo" =>
            IF exists(items, last'.id)
            THEN /\ last'.ret = [kind |-> "result", isSuccess |-> TRUE,
                                 isFailure |-> FALSE, error |-> "",
                                 value |-> Bool(TRUE)]
                 /\ count(items') = count(items) - 1
                 /\ items' = Without(items, FindIndex(items, last'.id))
                 /\ delete(items', last'.id).ret = Bool(FALSE)
            ELSE /\ last'.ret = NotFound
                 /\ count(items') = count(items)
                 /\ items' = items]_vars

\* C9 witness: deleteTodo has failed for an id that was assigned earlier, on a
\* store that still holds a task.
C9_Witness ==
    /\ last.op = "deleteTodo"
    /\ last.ret.isFailure
    /\ last.id < nextId
    /\ items # <<>>

-----------------------------------------------------------------------------
(* Due dates *)

\* C10: updateTodo on a stored task treats the due date in exactly three ways:
\* dueDate null leaves the task without a due date; dueDate a Date or any
\* string, the empty one included, leaves it with that value as a time; no
\* dueDate key leaves the due date as it was.
C10_DueDateCases ==
    [][\A id \in IdArgs, updates \in UpdateTodoDtos :
        (/\ last'.op = "updateTodo"
         /\ last'.id = id
         /\ exists(items, id)
         /\ updateTodo(id, updates)) =>
            LET before == items[FindIndex(items, id)]
                after == items'[FindIndex(items', id)]
            IN  IF "dueDate" \notin DOMAIN updates
                THEN Time(dates', after.dueDate) = Time(dates, before.dueDate)
                ELSE CASE updates.dueDate.kind = "null" -> after.dueDate = NoDate
                       [] updates.dueDate.kind = "new" ->
                            /\ after.dueDate # NoDate
                            /\ dates'[after.dueDate] = updates.dueDate.t
                       [] updates.dueDate.kind = "string" ->
                            /\ after.dueDate # NoDate
                            /\ dates'[after.dueDate] = DateParse(updates.dueDate.s)
                       [] OTHER -> TRUE]_vars

-----------------------------------------------------------------------------
(* The filtered view *)

\* C11: at every read the todos view is the whole store when the filter is
\* 'all', and otherwise exactly the tasks whose status is the filter, in the
\* order of the store; after an updateTodo that changes a status the task is in
\* the view exactly when its new status passes the filter, the filter not
\* having been set again.
C11_TodosView ==
    /\ [](LET view == todos(items, filter) IN
          IF filter = "all" THEN view = items
          ELSE view = SelectSeq(items, LAMBDA t : t.status = filter))
    /\ [][(last'.op = "updateTodo" /\ last'.ret.isSuccess) =>
            /\ filter' = filter
            /\ (last'.id \in Ids(todos(items', filter')))
                    <=> (filter = "all" \/ last'.ret.value.o.status = filter)]_vars

\* C11 witness: under the filter 'completed' the first of two completed tasks
\* was set back to pending, and only the second is left in the view.
C11_Witness ==
    /\ filter = "completed"
    /\ last.op = "updateTodo"
    /\ last.ret.isSuccess
    /\ Len(items) = 2
    /\ last.id = items[1].id
    /\ items[1].status = "pending"
    /\ items[2].status = "completed"
    /\ todos(items, filter) = <<items[2]>>

-----------------------------------------------------------------------------
(* Timestamps *)

\* C12: in every reachable state every stored task has createdAt <= updatedAt,
\* both stamps being readings of the system clock taken by the call (successive
\* readings do not decrease); every successful updateTodo leaves the task with
\* an updatedAt at or after the one it had.
C12_CreatedBeforeUpdated ==
    /\ [](\A i \in 1..Len(items) :
            dates[items[i].createdAt] <= dates[items[i].updatedAt])
    /\ [][(last'.op = "updateTodo" /\ last'.ret.isSuccess) =>
            LET before == items[FindIndex(items, last'.id)]
                after == items'[FindIndex(items', last'.id)]
            IN  /\ dates'[after.updatedAt] >= dates[before.updatedAt]
                /\ dates'[after.updatedAt] = clock']_vars

\* C12 witness: the first task, created at time 1, was updated at time 2 after
\* a second task had been created at time 2.
C12_Witness ==
    /\ last.op = "updateTodo"
    /\ last.ret.isSuccess
    /\ Len(items) = 2
    /\ last.id = items[1].id
    /\ dates[items[1].createdAt] = 1
    /\ dates[items[1].updatedAt] = 2
    /\ dates[items[2].createdAt] = 2

-----------------------------------------------------------------------------
(* Result *)

\* A Result that is a success without an error, or a failure with a message.
OneOfTwo(r) ==
    \/ r.isSuccess /\ ~r.isFailure /\ ~Truthy(r.error)
    \/ ~r.isSuccess /\ r.isFailure /\ Truthy(r.error)

\* C13: every Result constructed is a success (isSuccess, not isFailure, no
\* error) or a failure (isFailure, not isSuccess, a non-empty message), never
\* both and never neither; fail with an empty message, and the construction of
\* a success with an error, raise and give the caller no Result.
C13_SuccessOrFailure ==
    /\ [](/\ \A i \in 1..Len(results) : OneOfTwo(results[i])
          /\ last.ret.kind = "result" => OneOfTwo(last.ret))
    /\ [][/\ (last'.op = "fail" /\ last'.arg = "") =>
                (last'.ret.kind = "throw" /\ results' = results)
          /\ (last'.op = "new Result" /\ last'.arg.isSuccess /\ last'.arg.error # "") =>
                (last'.ret.kind = "throw" /\ results' = results)]_vars

\* C13 witness: the construction of a success with an error has raised while
\* the caller held a success and a failure.
C13_Witness ==
    /\ last.op = "new Result"
    /\ last.arg.isSuccess
    /\ last.arg.error = "E"
    /\ last.ret.kind = "throw"
    /\ \E i, j \in 1..Len(results) : results[i].isSuccess /\ results[j].isFailure

\* C14: Result.ok(x).getValue() returns x for every value x; getValue on a
\* failure Result raises instead of returning a value.
C14_GetValue ==
    /\ [](\A x \in Values : getValue(ok(x)) = x)
    /\ [][last'.op = "getValue" =>
            LET r == IF last'.id = 0 THEN last.ret ELSE results[last'.id] IN
            /\ r.isFailure =>
                    last'.ret = Thrown("Can't get the value of a failed result.")
            /\ (last.op = "ok" /\ last'.id = 0) => last'.ret = last.arg]_vars

\* C14 witness: getValue has raised on a failure the caller held next to a
\* success that carries an object.
C14_Witness ==
    /\ last.op = "getValue"
    /\ last.id > 0
    /\ results[last.id].isFailure
    /\ last.ret.kind = "throw"
    /\ \E i \in 1..Len(results) :
            results[i].isSuccess /\ results[i].value.kind = "object"

\* C15: combine returns the failure at the lowest index of the list, with that
\* failure's message, when the list holds a failure, and a success when the
\* list is empty or holds successes only.
C15_Combine ==
    last.op = "combine" =>
        LET failures == {i \in 1..Len(results) : results[i].isFailure} IN
        IF failures # {}
        THEN LET first == CHOOSE i \in failures : \A j \in failures : i <= j IN
             /\ last.ret = results[first]
             /\ last.ret.isFailure
             /\ last.ret.error = results[first].error
        ELSE last.ret.isSuccess /\ ~last.ret.isFailure

\* C15 witness: combine of a success followed by two failures with different
\* messages has returned the first of the two.
C15_Witness ==
    /\ last.op = "combine"
    /\ Len(results) = 3
    /\ results[1].isSuccess
    /\ results[2].isFailure
    /\ results[3].isFailure
    /\ results[2].error # results[3].error
    /\ last.ret.error = results[2].error

-----------------------------------------------------------------------------
(* Construction of a Repository *)

\* An initial list with an id that is not positive; one with a repeated id.
HasInvalidId(l) == \E i \in 1..Len(l) : l[i].id <= 0

HasDuplicateId(l) == \E i, j \in 1..Len(l) : i # j /\ l[i].id = l[j].id

\* C16: the construction of a Repository from a list with an id <= 0 or with
\* two items of the same id raises (Invalid ID, respectively Duplicate ID
\* found) and leaves no store.
C16_ConstructionFails ==
    (last.op = "new" /\ (HasInvalidId(last.arg) \/ HasDuplicateId(last.arg))) =>
        /\ ~constructed
        /\ items = <<>>
        /\ ~ENABLED NextRepo
        /\ last.ret.kind = "throw"
        /\ last.ret.message \in {"Invalid ID", "Duplicate ID found"}
        /\ ~HasDuplicateId(last.arg) => last.ret.message = "Invalid ID"
        /\ ~HasInvalidId(last.arg) => last.ret.message = "Duplicate ID found"

\* C16 witness: the construction from two items that share a positive id has
\* raised.
C16_Witness ==
    /\ last.op = "new"
    /\ Len(last.arg) = 2
    /\ last.arg[1].id = last.arg[2].id
    /\ last.arg[1].id > 0
    /\ last.ret.kind = "throw"

\* C17: the construction from a list of positive, pairwise distinct ids
\* succeeds; getAll() then returns items equal by value to the list, in its
\* order; and the first create afterwards, whatever updates and deletes came
\* before it, returns the id max(ids) + 1, or 1 for the empty list.
C17_ConstructionKeeps ==
    /\ [](last.op = "new" =>
            /\ (~HasInvalidId(last.arg) /\ ~HasDuplicateId(last.arg)) => constructed
            /\ constructed =>
                /\ getAll(items) = last.arg
                /\ nextId = IF last.arg = <<>> THEN 1 ELSE Max(Ids(last.arg)) + 1)
    /\ [][/\ last'.op \in {"update", "delete"} => nextId' = nextId
          /\ last'.op = "create" => last'.ret.o.id = nextId
          /\ (last.op = "new" /\ last'.op = "create") =>
                last'.ret.o.id = IF last.arg = <<>> THEN 1 ELSE Max(Ids(last.arg)) + 1]_vars

\* C17 witness: the first create after the construction from the ids 2, 1 in
\* that order has returned the id 3.
C17_Witness ==
    /\ last.op = "create"
    /\ Len(items) = 3
    /\ items[1].id = 2
    /\ items[2].id = 1
    /\ items[3].id = 3
    /\ nextId = 4

-----------------------------------------------------------------------------
(* Adding a task *)

\* C18: every addTodo call returns a Result and raises nothing; a success
\* carries a task with createdAt equal to updatedAt and the id the store
\* assigned (its nextId, an id no stored task has); the store then holds one
\* task more, that task last, and the tasks it held are as they were.
C18_AddTodo ==
    [][last'.op = "addTodo" =>
        /\ last'.ret.kind = "result"
        /\ last'.ret.isSuccess =>
            LET task == last'.ret.value.o IN
            /\ task.createdAt = task.updatedAt
            /\ dates'[task.createdAt] = dates'[task.updatedAt]
            /\ dates'[task.createdAt] = clock'
            /\ task.id = nextId
            /\ task.id > 0
            /\ task.id \notin Ids(items)
            /\ Len(items') = Len(items) + 1
            /\ items'[Len(items')] = task
            /\ \A i \in 1..Len(items) :
                    Read(items'[i], dates') = Read(items[i], dates)]_vars

\* C18 witness: a second task, with a due date, was added at time 2 to a store
\* holding a task updated before.
C18_Witness ==
    /\ last.op = "addTodo"
    /\ last.ret.isSuccess
    /\ Len(items) = 2
    /\ items[2].id = last.ret.value.o.id
    /\ items[2].dueDate # NoDate
    /\ dates[items[2].createdAt] = 2
    /\ items[1].status = "completed"

\* C19: a task added to a fresh application state is stored with id 1 and
\* status 'pending'; every task has status 'pending' right after the add that
\* created it, whatever text, priority and due date the form carried.
C19_AddedPending ==
    [][(last'.op = "addTodo" /\ last'.ret.isSuccess) =>
        LET task == items'[Len(items')] IN
        /\ task.status = "pending"
        /\ last'.ret.value.o.status = "pending"
        /\ getById(items', last'.ret.value.o.id).o.status = "pending"
        /\ nextId = 1 => (task.id = 1 /\ Len(items') = 1)]_vars

\* C19 witness: a task of priority high with a due date was added, still
\* pending, to a store whose other task is completed.
C19_Witness ==
    /\ last.op = "addTodo"
    /\ last.ret.isSuccess
    /\ Len(items) = 2
    /\ items[1].status = "completed"
    /\ items[2].status = "pending"
    /\ items[2].priority = "high"
    /\ items[2].dueDate # NoDate

-----------------------------------------------------------------------------
(* The text of a task *)

\* C20: in every state reached through addTodo and updateTodo called with any
\* text argument, the text of every stored task is non-empty after trimming.
C20_TextNotBlank ==
    \A i \in 1..Len(items) : Trim(items[i].text) # ""

-----------------------------------------------------------------------------
(* Order of the store *)

\* The ids of a list of items, in its order.
IdSeq(s) == [i \in 1..Len(s) |-> s[i].id]

\* C21: getAll() lists the items in insertion order: after a create the new
\* item is last and the others are where they were, after an update every
\* position holds the id it held, after a delete the remaining ids are in the
\* relative order they had.
C21_InsertionOrder ==
    [][/\ last'.op = "create" =>
            /\ IdSeq(getAll(items')) = Append(IdSeq(getAll(items)), last'.ret.o.id)
            /\ \A i \in 1..Len(items) : getAll(items')[i] = getAll(items)[i]
       /\ last'.op = "update" =>
            /\ IdSeq(getAll(items')) = IdSeq(getAll(items))
            /\ last'.ret.kind = "object" =>
                    getAll(items')[FindIndex(items, last'.id)] = last'.ret.o
       /\ last'.op = "delete" =>
            /\ IdSeq(getAll(items')) =
                    SelectSeq(IdSeq(getAll(items)), LAMBDA x : x # last'.id)
            /\ getAll(items') = SelectSeq(getAll(items), LAMBDA t : t.id # last'.id)]_vars

\* C21 witness: the first of three items, the ids not in ascending order, was
\* updated and is still first.
C21_Witness ==
    /\ last.op = "update"
    /\ last.ret.kind = "object"
    /\ Len(items) = 3
    /\ items[1].id = last.id
    /\ items[1].id > items[2].id
    /\ items[1].text = "Walk dog"

-----------------------------------------------------------------------------
(* Read operations of the store *)

\* C22: in every state of the store count() is the length of getAll(),
\* exists(id) is true exactly when getById(id) returns an item, getById(id) is
\* the one element of getAll() with that id, and query(p) is the subsequence of
\* getAll() whose elements satisfy p; a call of any of them returns that and
\* changes nothing.
C22_ReadsAgree ==
    /\ [](constructed =>
            LET all == getAll(items) IN
            /\ count(items) = Len(all)
            /\ \A id \in RepoIdArgs :
                LET got == getById(items, id)
                    at == {i \in 1..Len(all) : all[i].id = id}
                IN  /\ exists(items, id) <=> got.kind = "object"
                    /\ got.kind = "object" =>
                            (Cardinality(at) = 1 /\ \A i \in at : all[i] = got.o)
                    /\ got.kind = "undefined" => at = {}
            /\ \A p \in Predicates :
                    query(items, p) = SelectSeq(all, LAMBDA t : t[p.field] = p.value))
    /\ [][last'.op \in {"getAll", "getById", "exists", "count", "query"} =>
            /\ UNCHANGED <<items, nextId, dates>>
            /\ last'.op = "getAll" => last'.ret.a = items
            /\ last'.op = "count" => last'.ret.n = Len(getAll(items))
            /\ last'.op = "exists" =>
                    last'.ret.b = (\E i \in 1..Len(items) : getAll(items)[i].id = last'.id)
            /\ last'.op = "getById" =>
                    IF last'.ret.kind = "object"
                    THEN \E i \in 1..Len(items) :
                            getAll(items)[i].id = last'.id /\ getAll(items)[i] = last'.ret.o
                    ELSE \A i \in 1..Len(items) : getAll(items)[i].id # last'.id
            /\ last'.op = "query" =>
                    last'.ret.a = SelectSeq(getAll(items),
                                            LAMBDA t : t[last'.arg.field] = last'.arg.value)]_vars

\* C22 witness: getById has returned the item with id 1 from the second place
\* of a store whose first item has id 2 and is completed.
C22_Witness ==
    /\ last.op = "getById"
    /\ last.id = 1
    /\ last.ret.kind = "object"
    /\ Len(items) >= 2
    /\ items[1].id = 2
    /\ items[2].id = 1
    /\ items[1].status = "completed"

-----------------------------------------------------------------------------
(* What the calls of the application state return and leave alone *)

\* C27: the task a success Result of addTodo or updateTodo carries equals,
\* field by field, what getById returns for its id right after the call.
C27_ResultIsStored ==
    [][(last'.op \in {"addTodo", "updateTodo"} /\ last'.ret.isSuccess) =>
        LET task == last'.ret.value.o
            got == getById(items', task.id)
        IN  /\ got.kind = "object"
            /\ \A k \in DOMAIN task : got.o[k] = task[k]
            /\ DOMAIN got.o = DOMAIN task
            /\ Read(got.o, dates') = Read(task, dates')
            /\ last'.op = "updateTodo" => task.id = last'.id]_vars

\* C27 witness: updateTodo has returned the second of two tasks with a new
\* due date and a later updatedAt.
C27_Witness ==
    /\ last.op = "updateTodo"
    /\ last.ret.isSuccess
    /\ Len(items) = 2
    /\ last.id = items[2].id
    /\ last.ret.value.o.dueDate # NoDate
    /\ dates[last.ret.value.o.updatedAt] > dates[last.ret.value.o.createdAt]

\* C28: setting the filter changes neither the stored tasks nor nextId;
\* addTodo, updateTodo and deleteTodo, successful or failed, leave the filter
\* as it was; the filter is 'all' at first and then the last value set.
C28_FilterFrame ==
    /\ [](last.op = "new" => filter = "all")
    /\ [][/\ last'.op = "setFilter" =>
                /\ filter' = last'.arg
                /\ items' = items
                /\ nextId' = nextId
                /\ dates' = dates
          /\ last'.op \in {"addTodo", "updateTodo", "deleteTodo"} => filter' = filter]_vars

\* C28 witness: a deleteTodo has failed on a store holding a completed task
\* while the filter was 'completed'.
C28_Witness ==
    /\ filter = "completed"
    /\ last.op = "deleteTodo"
    /\ last.ret.isFailure
    /\ Len(items) = 1
    /\ items[1].status = "completed"

\* C29: a TodoAppState starts with nextId 1 and an empty store; every addTodo
\* returns the id nextId and raises nextId by one, and no other call changes
\* nextId, so the k-th addTodo returns k whatever came between; the ids in
\* getAll() are strictly ascending.
C29_IdsCountAdds ==
    /\ [](/\ last.op = "new" => (nextId = 1 /\ items = <<>>)
          /\ \A i, j \in 1..Len(items) :
                i < j => getAll(items)[i].id < getAll(items)[j].id
          /\ \A i \in 1..Len(items) : items[i].id < nextId)
    /\ [][/\ last'.op = "addTodo" =>
                /\ last'.ret.isSuccess
                /\ last'.ret.value.o.id = nextId
                /\ nextId' = nextId + 1
          /\ last'.op # "addTodo" => nextId' = nextId]_vars

\* C29 witness: the second addTodo, made after the first task was updated and
\* deleted, has returned the id 2 to an otherwise empty store.
C29_Witness ==
    /\ last.op = "addTodo"
    /\ last.ret.value.o.id = 2
    /\ Len(items) = 1
    /\ nextId = 3

-----------------------------------------------------------------------------
(* Paging *)

\* C26: createPaginatedResponse sets totalPages to ceil(total / pageSize): for
\* total >= 0 and pageSize >= 1 it is the smallest integer n with
\* n * pageSize >= total; page, pageSize and total are in the response as they
\* were passed.
C26_TotalPages ==
    last.op = "createPaginatedResponse" =>
        LET r == last.ret.o IN
        /\ r.totalPages * last.arg.pageSize >= last.arg.total
        /\ \A n \in 0..(r.totalPages - 1) : n * last.arg.pageSize < last.arg.total
        /\ r.totalPages >= 0
        /\ r.page = last.arg.page
        /\ r.pageSize = last.arg.pageSize
        /\ r.total = last.arg.total

\* C26 witness: seven items in pages of three make three pages.
C26_Witness ==
    /\ last.op = "createPaginatedResponse"
    /\ last.arg.total = 7
    /\ last.arg.pageSize = 3
    /\ last.arg.page = 2
    /\ last.ret.o.totalPages = 3

-----------------------------------------------------------------------------
(* Formatting for transport *)

\* C25: formatTodoResponse returns for every task a response whose dueDate is
\* null exactly when the task has no due date and is otherwise the ISO string
\* of the due date, every other field being the task's; the call changes
\* neither the task passed in nor the store.
C25_FormatTodoResponse ==
    [][last'.op = "formatTodoResponse" =>
        LET todo == last'.arg IN
        /\ last'.ret.kind = "object"
        /\ (last'.ret.o.dueDate = Null) <=> (todo.dueDate = NoDate)
        /\ todo.dueDate # NoDate =>
                /\ last'.ret.o.dueDate.kind = "string"
                /\ DateParse(last'.ret.o.dueDate.s) = dates[todo.dueDate]
        /\ \A k \in DOMAIN todo \ {"dueDate"} : last'.ret.o[k] = todo[k]
        /\ UNCHANGED <<items, nextId, filter, dates>>]_vars

-----------------------------------------------------------------------------
(* The page *)

\* C23: a notification timer callback (the timeout that hides the element, the
\* transitionend listener that removes it), fired at any point between the
\* user's events and in any order, changes neither the stored tasks and the
\* Dates they point to, nor the next id to assign, nor the filter.
C23_TimersKeepDomain ==
    [][last'.op \in {"timeout", "transitionend"} =>
        UNCHANGED <<items, nextId, filter, dates>>]_vars

\* C23 witness: with two tasks stored and the completed ones on view, the timer
\* of the second notification has fired while the first, shown earlier, is
\* still waiting for its own.
C23_Witness ==
    /\ last.op = "timeout"
    /\ Len(items) = 2
    /\ filter = "completed"
    /\ Len(notifications) = 2
    /\ notifications[1].phase = "show"
    /\ notifications[2].phase = "hiding"

\* C24: once a handler of the page (add, status change, delete, filter change)
\* has returned, and until the next one runs, the tasks on screen are those of
\* the filtered view appState.todos, in its order and with its values.
C24_ScreenIsView ==
    LET view == todos(items, filter) IN
    /\ Len(screen) = Len(view)
    /\ \A i \in 1..Len(view) :
        /\ screen[i].id = view[i].id
        /\ screen[i].text = view[i].text
        /\ screen[i].status = view[i].status
        /\ screen[i].priority = view[i].priority
        /\ (screen[i].due = Null) <=> (view[i].dueDate = NoDate)
        /\ view[i].dueDate # NoDate => screen[i].due.t = dates[view[i].dueDate]
        /\ screen[i].updated = dates[view[i].updatedAt]

\* C24 witness: with the completed tasks on view, the status select of one of
\* two tasks was set back to pending: the task left the screen, the other one
\* is still shown.
C24_Witness ==
    /\ last.op = "updateTodo"
    /\ last.ret.isSuccess
    /\ last.ret.value.o.status = "pending"
    /\ filter = "completed"
    /\ Len(items) = 2
    /\ Len(screen) = 1
    /\ screen[1].id # last.ret.value.o.id

=========================================================================
